---------------------------- MODULE Spec2Model ----------------------------
(***************************************************************************)
(* NedVision analytics service (src/analytics/main.py).                    *)
(*                                                                         *)
(* Seven components are modelled, each with its own specification over    *)
(* the shared variables (the components share no state in the program):    *)
(*   SpecForecast    - _fit_forecast / _fit_prophet (Forecast Engine)      *)
(*   SpecSeries      - _daily_cash_series          (Series Builder)        *)
(*   SpecScenario    - whatif_upload               (Scenario Engine)       *)
(*   SpecRecur       - debit_orders_due, per-group projection              *)
(*   SpecKeys        - debit_orders_due, grouping keys                     *)
(*   SpecCache       - _build_branch_cache, concurrent calls               *)
(*   SpecFingerprint - _fingerprint                                        *)
(*                                                                         *)
(* Amounts are currency units modelled as integers (exact arithmetic).     *)
(* A calendar date is its ordinal day number; an optional (nullable) value *)
(* is the empty sequence (null) or a one-element sequence.                 *)
(***************************************************************************)
EXTENDS Integers, Sequences, FiniteSets, TLC

VARIABLES
    \* ---- Forecast Engine: one call of _fit_forecast
    history,        \* the cash history (pd.Series), oldest first
    horizon_days,   \* requested horizon H
    model,          \* requested model name
    fpc,            \* position inside _fit_forecast
    fresult,        \* the returned pd.Series (sequence of values)
    ftier,          \* which tier produced fresult
    \* ---- Series Builder: one call of _daily_cash_series
    columns,        \* column names of the concatenated frames
    df,             \* rows of the concatenated frames (pd.concat, line 353)
    from_date,      \* optional inclusive lower bound
    to_date,        \* optional inclusive upper bound
    spc,            \* "call", "returned" or "raised"
    serr,           \* the exception raised, when spc = "raised"
    base,           \* the anchor balance (line 368)
    full,           \* the returned frame: rows [Date, AmountZAR, cash]
    \* ---- Scenario Engine: one request to whatif_upload
    adj,            \* normalized adjustment rows [date, delta], in file order
    w_horizon_days, \* the request's horizon_days
    last_date,      \* last historical date
    base_fc,        \* the base forecast values (_fit_forecast)
    wpc,            \* "call", "returned" or "raised"
    werr,           \* the HTTPException raised, when wpc = "raised"
    scenario,       \* response "forecast": rows [date, cash]
    applied,        \* response "applied": rows [date, delta]
    \* ---- Recurrence Detector: one group of the loop of debit_orders_due
    today,          \* pd.Timestamp.today().normalize()
    window_days,    \* the request's window_days
    dates,          \* the group's transaction dates, sorted (line 614)
    kw,             \* g["_kw"].any()
    monthly_like,   \* line 619 (FALSE until the line is reached)
    weekly_like,    \* line 620 (FALSE until the line is reached)
    rpc,            \* "group", "skipped" or "projected"
    branch,         \* the projection branch taken: "monthly", "weekly", "none"
    preferred_dom,  \* line 637 (null until the line is reached)
    next_due,       \* the projected date (null when there is none)
    listed,         \* whether the group was appended to items
    \* ---- Branch Cache: concurrent calls of _build_branch_cache for one branch
    c_src,          \* os.stat of the branch's source file (null: no file)
    c_touches,      \* how often the source file was modified so far
    c_store,        \* the cache directory: entry path -> entry file (null: absent)
    c_pointer,      \* the pointer file <branch>.json (null: absent)
    c_pc,           \* per call: position inside _build_branch_cache
    c_sig,          \* per call: sig (line 137)
    c_seen,         \* per call: the os.stat result the fingerprint was taken of
    c_prior,        \* per call: the calls that had returned a path when it began
    c_frames,       \* per call: the content read of the source (null: not read)
    c_ret,          \* per call: the returned path
    c_entry,        \* per call: the entry file at c_ret as it was on return
    c_err,          \* per call: status code of the HTTPException raised (0: none)
    \* ---- Grouping keys: lines 596-613 of debit_orders_due
    txns,           \* the outflow rows: [Counterparty, Description], nullable labels
    null_str,       \* what astype(str) makes of a null cell in this build of pandas
    row_keys,       \* df["_key"], one per row
    groups,         \* the groups the loop does not skip at line 612: sets of row numbers
    kpc,            \* "call" or "grouped"
    \* ---- Fingerprint: two calls of _fingerprint, on two file sets
    fp_paths,       \* per call: the paths supplied, in the order supplied
    fp_stat,        \* per call: os.stat of each path (null: FileNotFoundError)
    fp_bytes,       \* per call: the bytes fed to the hash (null: not called yet)
    fp_sig          \* per call: the returned fingerprint

fvars == <<history, horizon_days, model, fpc, fresult, ftier>>
svars == <<columns, df, from_date, to_date, spc, serr, base, full>>

wvars == <<adj, w_horizon_days, last_date, base_fc, wpc, werr, scenario, applied>>

rvars == <<today, window_days, dates, kw, monthly_like, weekly_like, rpc, branch, preferred_dom,
          next_due, listed>>

cvars == <<c_src, c_touches, c_store, c_pointer, c_pc, c_sig, c_seen, c_prior, c_frames,
          c_ret, c_entry, c_err>>

kvars == <<txns, null_str, row_keys, groups, kpc>>

pvars == <<fp_paths, fp_stat, fp_bytes, fp_sig>>

vars == <<fvars, svars, wvars, rvars, cvars, kvars, pvars>>

\* what each component leaves alone
nonForecast == <<svars, wvars, rvars, cvars, kvars, pvars>>
nonSeries == <<fvars, wvars, rvars, cvars, kvars, pvars>>
nonScenario == <<fvars, svars, rvars, cvars, kvars, pvars>>
nonRecur == <<fvars, svars, wvars, cvars, kvars, pvars>>
nonCache == <<fvars, svars, wvars, rvars, kvars, pvars>>
nonKeys == <<fvars, svars, wvars, rvars, cvars, pvars>>
nonFingerprint == <<fvars, svars, wvars, rvars, cvars, kvars>>

(***************************************************************************)
(* Generic helpers                                                         *)
(***************************************************************************)
None == <<>>
Some(v) == <<v>>
IsNull(o) == o = <<>>
Val(o) == o[1]

SeqsUpTo(S, n) == UNION {[1..k -> S] : k \in 0..n}

(***************************************************************************)
(* Forecast Engine                                                         *)
(***************************************************************************)
\* bounds of the model
MaxHistory == 8
MaxHorizon == 3
\* len(history) < 7 : the short-history guard
MinHistory == 7

CashValues == {100, 250}
ModelNames == {"hw", "prophet", "arima"}
\* parameters a fit may estimate (level, trend)
FitLevels == {90, 260}
FitTrends == {-5, 10}

\* pd.Series([last] * horizon_days)
FlatSeries(last, h) == [i \in 1..h |-> last]

\* history.iloc[-1]
LastHistoryWrong(hist) == hist[1]
LastHistory(hist) == hist[Len(hist)]

\* model_hw.forecast(h): additive trend, no season: level + i * trend
HwForecast(level, trend, h) == [i \in 1..h |-> level + i * trend]

\* _fit_prophet: yhat over make_future_dataframe(periods = h)
ProphetForecast(level, trend, h) == [i \in 1..h |-> level + i * trend]

InitForecast ==
    /\ history \in SeqsUpTo(CashValues, MaxHistory)
    /\ horizon_days \in 1..MaxHorizon
    /\ model \in ModelNames
    /\ fpc = "call"
    /\ fresult = <<>>
    /\ ftier = "none"

\* lines 716-718: short history, flat projection of the last value (0.0 when empty)
ShortHistoryGuard ==
    /\ fpc = "call"
    /\ Len(history) < MinHistory
    /\ fresult' = FlatSeries(IF Len(history) > 0 THEN LastHistory(history) ELSE 0,
                             horizon_days)
    /\ ftier' = "short"
    /\ fpc' = "done"
    /\ UNCHANGED <<history, horizon_days, model>>
    /\ UNCHANGED nonForecast

\* line 720: dispatch on the requested model
SelectModel ==
    /\ fpc = "call"
    /\ Len(history) >= MinHistory
    /\ fpc' = IF model = "prophet" THEN "prophet" ELSE "hw"
    /\ UNCHANGED <<history, horizon_days, model, fresult, ftier>>
    /\ UNCHANGED nonForecast

\* lines 721-722: _fit_prophet returns
ProphetOk ==
    /\ fpc = "prophet"
    /\ \E l \in FitLevels, t \in FitTrends :
          fresult' = ProphetForecast(l, t, horizon_days)
    /\ ftier' = "prophet"
    /\ fpc' = "done"
    /\ UNCHANGED <<history, horizon_days, model>>
    /\ UNCHANGED nonForecast

\* a handler that lets the exception escape
ProphetFailPropagates ==
    /\ fpc = "prophet"
    /\ fpc' = "raised"
    /\ UNCHANGED <<history, horizon_days, model, fresult, ftier>>
    /\ UNCHANGED nonForecast

\* lines 723-725: _fit_prophet raises (import, construction or fit); swallowed
ProphetFail ==
    /\ fpc = "prophet"
    /\ fpc' = "hw"
    /\ UNCHANGED <<history, horizon_days, model, fresult, ftier>>
    /\ UNCHANGED nonForecast

\* lines 728-735: Holt-Winters fit and forecast succeed
HwOk ==
    /\ fpc = "hw"
    /\ \E l \in FitLevels, t \in FitTrends :
          fresult' = HwForecast(l, t, horizon_days)
    /\ ftier' = "hw"
    /\ fpc' = "done"
    /\ UNCHANGED <<history, horizon_days, model>>
    /\ UNCHANGED nonForecast

\* lines 736-738: Holt-Winters raises; flat projection of the last value
HwFail ==
    /\ fpc = "hw"
    /\ fresult' = FlatSeries(LastHistory(history), horizon_days)
    /\ ftier' = "fallback"
    /\ fpc' = "done"
    /\ UNCHANGED <<history, horizon_days, model>>
    /\ UNCHANGED nonForecast

NextForecast ==
    \/ ShortHistoryGuard
    \/ SelectModel
    \/ ProphetOk
    \/ ProphetFail
    \/ HwOk
    \/ HwFail

IdleForecast ==
    /\ history = <<>>
    /\ horizon_days = 1
    /\ model = "hw"
    /\ fpc = "idle"
    /\ fresult = <<>>
    /\ ftier = "none"

(***************************************************************************)
(* Series Builder: _daily_cash_series (lines 352-370)                      *)
(***************************************************************************)
\* bounds of the model
MaxRows == 2
MaxDay == 3

AllColumns == {"Date", "Credit_ZAR", "Debit_ZAR", "Balance_ZAR"}
ColumnChoices == {AllColumns, AllColumns \ {"Date"}, AllColumns \ {"Debit_ZAR"}}
Days == 1..MaxDay
\* (Credit_ZAR, Debit_ZAR) of a row; either may be null
AmountPairs == {<<None, None>>, <<Some(50), None>>, <<None, Some(20)>>}
BalanceValues == {None, Some(1000), Some(3000)}
FilterChoices == {None, Some(2)}

Rows ==
    {[Date |-> d, Credit_ZAR |-> a[1], Debit_ZAR |-> a[2], Balance_ZAR |-> b] :
        d \in Days, a \in AmountPairs, b \in BalanceValues}

\* .fillna(0)
FillNa0(o) == IF IsNull(o) THEN 0 ELSE Val(o)

\* lines 356-359: df[df["Date"] >= from_date], df[df["Date"] <= to_date]
KeepRow(r, lo, hi) ==
    /\ IsNull(lo) \/ r.Date >= Val(lo)
    /\ IsNull(hi) \/ r.Date <= Val(hi)

RECURSIVE DateFilter(_, _, _)
DateFilter(t, lo, hi) ==
    IF t = <<>> THEN <<>>
    ELSE IF KeepRow(Head(t), lo, hi)
         THEN <<Head(t)>> \o DateFilter(Tail(t), lo, hi)
         ELSE DateFilter(Tail(t), lo, hi)

\* line 362: Credit_ZAR.fillna(0) - Debit_ZAR.fillna(0)
AmountZAR(r) == FillNa0(r.Credit_ZAR) - FillNa0(r.Debit_ZAR)

\* line 363: groupby("Date")["AmountZAR"].sum(), one group per date present
RECURSIVE GroupSum(_, _)
GroupSum(t, d) ==
    IF t = <<>> THEN 0
    ELSE (IF Head(t).Date = d THEN AmountZAR(Head(t)) ELSE 0) + GroupSum(Tail(t), d)

GroupKeys(t) == {t[i].Date : i \in 1..Len(t)}

MinOf(S) == CHOOSE x \in S : \A y \in S : x <= y
MaxOf(S) == CHOOSE x \in S : \A y \in S : x >= y

\* a calendar that stops one day short of the last date
DateRangeOpenEnd(start, end) == [i \in 1..(end - start) |-> start + i - 1]
\* line 364: pd.date_range(start, end, freq="D")
DateRange(start, end) == [i \in 1..(end - start + 1) |-> start + i - 1]

\* lines 365-366: left merge of the calendar on the daily sums, NaN filled with 0.0
MergedAmount(t, d) == IF d \in GroupKeys(t) THEN GroupSum(t, d) ELSE 0

\* Series.cumsum()
RECURSIVE CumSum(_, _)
CumSum(amounts, i) == IF i = 0 THEN 0 ELSE CumSum(amounts, i - 1) + amounts[i]

\* line 369 without the running sum
CashNoCumSum(b, amounts, i) == b + amounts[i]
\* line 369: base + AmountZAR.cumsum()
Cash(b, amounts, i) == b + CumSum(amounts, i)

\* lines 364-370 on a non-empty filtered table
BuildFull(t, b) ==
    LET idx == DateRange(MinOf(GroupKeys(t)), MaxOf(GroupKeys(t)))
        amounts == [i \in 1..Len(idx) |-> MergedAmount(t, idx[i])]
    IN  [i \in 1..Len(idx) |->
            [Date |-> idx[i], AmountZAR |-> amounts[i], cash |-> Cash(b, amounts, i)]]

\* lines 367-368: dropna(subset=["Balance_ZAR"]).sort_values("Date").iloc[0]; the
\* sort is not stable, so any of the rows of the earliest date may come first
AnchorBalances(t) ==
    LET withBal == {i \in 1..Len(t) : ~IsNull(t[i].Balance_ZAR)}
    IN  {Val(t[i].Balance_ZAR) :
            i \in {j \in withBal : \A k \in withBal : t[j].Date <= t[k].Date}}

InitSeries ==
    /\ columns \in ColumnChoices
    /\ df \in SeqsUpTo(Rows, MaxRows)
    /\ from_date \in FilterChoices
    /\ to_date \in FilterChoices
    /\ spc = "call"
    /\ serr = [type |-> "none", detail |-> ""]
    /\ base = 0
    /\ full = <<>>

\* lines 354-355
SeriesNoDateColumn ==
    /\ spc = "call"
    /\ "Date" \notin columns
    /\ spc' = "raised"
    /\ serr' = [type |-> "HTTPException", detail |-> "CSV must contain a Date column"]
    /\ UNCHANGED <<columns, df, from_date, to_date, base, full>>
    /\ UNCHANGED nonSeries

\* lines 360-361
SeriesNoAmountColumns ==
    /\ spc = "call"
    /\ "Date" \in columns
    /\ "Credit_ZAR" \notin columns \/ "Debit_ZAR" \notin columns
    /\ spc' = "raised"
    /\ serr' = [type |-> "HTTPException", detail |-> "CSV missing credit/debit columns"]
    /\ UNCHANGED <<columns, df, from_date, to_date, base, full>>
    /\ UNCHANGED nonSeries

\* line 364 on an empty filtered table: min() and max() of no dates are NaN, and
\* pd.date_range(start=NaN, end=NaN) raises ValueError
SeriesEmpty ==
    /\ spc = "call"
    /\ {"Date", "Credit_ZAR", "Debit_ZAR"} \subseteq columns
    /\ DateFilter(df, from_date, to_date) = <<>>
    /\ spc' = "raised"
    /\ serr' = [type |-> "ValueError", detail |-> "Neither start nor end can be NaT"]
    /\ UNCHANGED <<columns, df, from_date, to_date, base, full>>
    /\ UNCHANGED nonSeries

\* lines 362-370
SeriesBuild ==
    /\ spc = "call"
    /\ {"Date", "Credit_ZAR", "Debit_ZAR"} \subseteq columns
    /\ LET t == DateFilter(df, from_date, to_date)
       IN  /\ t # <<>>
           /\ \/ /\ AnchorBalances(t) = {}
                 /\ base' = 0
              \/ \E b \in AnchorBalances(t) : base' = b
           /\ full' = BuildFull(t, base')
    /\ spc' = "returned"
    /\ UNCHANGED <<columns, df, from_date, to_date, serr>>
    /\ UNCHANGED nonSeries

NextSeries ==
    \/ SeriesNoDateColumn
    \/ SeriesNoAmountColumns
    \/ SeriesEmpty
    \/ SeriesBuild

IdleSeries ==
    /\ columns = AllColumns
    /\ df = <<>>
    /\ from_date = None
    /\ to_date = None
    /\ spc = "idle"
    /\ serr = [type |-> "none", detail |-> ""]
    /\ base = 0
    /\ full = <<>>

(***************************************************************************)
(* Scenario Engine: whatif_upload (lines 533-577)                          *)
(***************************************************************************)
\* bounds of the model
MaxAdj == 3
MaxScenarioHorizon == 2

DeltaValues == {-50, 100}
NoError == [type |-> "none", detail |-> "", first |-> 0, last |-> 0]

\* line 551: [last_date + timedelta(days=i) for i in range(1, horizon_days + 1)]
FutureDates(last, h) == [i \in 1..h |-> last + i]

SeqToSet(q) == {q[i] : i \in 1..Len(q)}

\* a membership test that forgets the end of the horizon
InHorizonNoEnd(d, future_dates) == d >= future_dates[1]
\* line 558: r.date in horizon_set
InHorizon(d, future_dates) == d \in SeqToSet(future_dates)

\* an accumulation where the last row of a date wins
PutDeltaOverwrite(deltas, r) ==
    [d \in DOMAIN deltas \cup {r.date} |-> IF d = r.date THEN r.delta ELSE deltas[d]]
\* line 559: deltas[r.date] = deltas.get(r.date, 0.0) + float(r.delta)
PutDelta(deltas, r) ==
    [d \in DOMAIN deltas \cup {r.date} |->
        IF d = r.date
        THEN (IF d \in DOMAIN deltas THEN deltas[d] ELSE 0) + r.delta
        ELSE deltas[d]]

\* lines 555-559: the date -> delta map, built row by row in file order
RECURSIVE BuildDeltas(_, _, _)
BuildDeltas(rows, future_dates, deltas) ==
    IF rows = <<>> THEN deltas
    ELSE BuildDeltas(Tail(rows), future_dates,
                     IF InHorizon(Head(rows).date, future_dates)
                     THEN PutDelta(deltas, Head(rows))
                     ELSE deltas)

\* sorted(...) of a set of dates
RECURSIVE Sorted(_)
Sorted(S) == IF S = {} THEN <<>> ELSE <<MinOf(S)>> \o Sorted(S \ {MinOf(S)})

\* a sweep that spares the adjustment's own date
ApplyDeltaAfter(path, d0, delta) ==
    [d \in DOMAIN path |-> IF d > d0 THEN path[d] + delta ELSE path[d]]
\* lines 569-571: for d in future_dates: if d >= d0: path[d] += delta
ApplyDelta(path, d0, delta) ==
    [d \in DOMAIN path |-> IF d >= d0 THEN path[d] + delta ELSE path[d]]

\* lines 568-571: for d0, delta in sorted(deltas.items())
RECURSIVE ApplyAll(_, _, _)
ApplyAll(path, keys, deltas) ==
    IF keys = <<>> THEN path
    ELSE ApplyAll(ApplyDelta(path, Head(keys), deltas[Head(keys)]), Tail(keys), deltas)

\* line 552: {d: float(v) for d, v in zip(future_dates, base_fc.values)}
BasePath(future_dates, fc) ==
    [d \in SeqToSet(future_dates) |-> fc[d - future_dates[1] + 1]]

\* lines 555-559 from an empty map
DeltasOf(rows, future_dates) == BuildDeltas(rows, future_dates, <<>>)

\* lines 568-573
ScenarioOf(rows, future_dates, fc) ==
    LET deltas == DeltasOf(rows, future_dates)
        path == ApplyAll(BasePath(future_dates, fc), Sorted(DOMAIN deltas), deltas)
    IN  [i \in 1..Len(future_dates) |->
            [date |-> future_dates[i], cash |-> path[future_dates[i]]]]

\* line 576
SummaryOf(rows, future_dates) ==
    LET deltas == DeltasOf(rows, future_dates)
        keys == Sorted(DOMAIN deltas)
    IN  [i \in 1..Len(keys) |-> [date |-> keys[i], delta |-> deltas[keys[i]]]]

\* line 548: base forecasts _fit_forecast(history, horizon_days) can return,
\* one flat (short history or fallback) and one trending (Holt-Winters)
BaseForecasts(h) ==
    {FlatSeries(MinOf(CashValues), h),
     HwForecast(MaxOf(FitLevels), MaxOf(FitTrends), h)}

InitScenario ==
    /\ w_horizon_days \in 1..MaxScenarioHorizon
    /\ last_date = MaxDay
    /\ base_fc \in BaseForecasts(w_horizon_days)
    /\ adj \in SeqsUpTo([date : last_date..(last_date + w_horizon_days + 1),
                         delta : DeltaValues], MaxAdj)
    /\ wpc = "call"
    /\ werr = NoError
    /\ scenario = <<>>
    /\ applied = <<>>

\* lines 541-542: no valid adjustment row
WhatifNoValidRows ==
    /\ wpc = "call"
    /\ adj = <<>>
    /\ wpc' = "raised"
    /\ werr' = [NoError EXCEPT !.type = "HTTPException",
                               !.detail = "No valid rows in CSV"]
    /\ UNCHANGED <<adj, w_horizon_days, last_date, base_fc, scenario, applied>>
    /\ UNCHANGED nonScenario

\* lines 561-565: no adjustment date within the horizon
WhatifNoOverlap ==
    /\ wpc = "call"
    /\ adj # <<>>
    /\ LET future_dates == FutureDates(last_date, w_horizon_days)
       IN  /\ DOMAIN DeltasOf(adj, future_dates) = {}
           /\ werr' = [type |-> "HTTPException",
                       detail |-> "No CSV dates fall within forecast horizon",
                       first |-> future_dates[1],
                       last |-> future_dates[Len(future_dates)]]
    /\ wpc' = "raised"
    /\ UNCHANGED <<adj, w_horizon_days, last_date, base_fc, scenario, applied>>
    /\ UNCHANGED nonScenario

\* lines 567-577: the adjusted path and the summary of applied deltas
WhatifApply ==
    /\ wpc = "call"
    /\ adj # <<>>
    /\ LET future_dates == FutureDates(last_date, w_horizon_days)
       IN  /\ DOMAIN DeltasOf(adj, future_dates) # {}
           /\ scenario' = ScenarioOf(adj, future_dates, base_fc)
           /\ applied' = SummaryOf(adj, future_dates)
    /\ wpc' = "returned"
    /\ UNCHANGED <<adj, w_horizon_days, last_date, base_fc, werr>>
    /\ UNCHANGED nonScenario

NextScenario ==
    \/ WhatifNoValidRows
    \/ WhatifNoOverlap
    \/ WhatifApply

IdleScenario ==
    /\ adj = <<>>
    /\ w_horizon_days = 1
    /\ last_date = 0
    /\ base_fc = <<>>
    /\ wpc = "idle"
    /\ werr = NoError
    /\ scenario = <<>>
    /\ applied = <<>>

(***************************************************************************)
(* Calendar: a date (a normalized pd.Timestamp) is its ordinal day number, *)
(* day 1 being 1 January of the first calendar year.                       *)
(***************************************************************************)
\* bound of the model: the number of years "today" ranges over
TodayYears == 1

TodayYearSet == 2024..(2023 + TodayYears)
CalYears == 2023..(2024 + TodayYears)

IsLeap(y) == (y % 4 = 0 /\ y % 100 # 0) \/ y % 400 = 0
DaysInMonth(y, m) ==
    IF m = 2 THEN (IF IsLeap(y) THEN 29 ELSE 28)
    ELSE IF m \in {4, 6, 9, 11} THEN 30 ELSE 31
DaysInYear(y) == IF IsLeap(y) THEN 366 ELSE 365

RECURSIVE DaysBeforeYear(_)
DaysBeforeYear(y) ==
    IF y <= MinOf(CalYears) THEN 0 ELSE DaysBeforeYear(y - 1) + DaysInYear(y - 1)

RECURSIVE DaysBeforeMonth(_, _)
DaysBeforeMonth(y, m) ==
    IF m = 1 THEN 0 ELSE DaysBeforeMonth(y, m - 1) + DaysInMonth(y, m - 1)

\* ordinal of the day before the first of month m of year y
MonthOffset == [y \in CalYears |-> [m \in 1..12 |-> DaysBeforeYear(y) + DaysBeforeMonth(y, m)]]

\* pd.Timestamp(year=y, month=m, day=d), for a day the month has
Timestamp(y, m, d) == MonthOffset[y][m] + d
\* whether pd.Timestamp(year=y, month=m, day=d) raises ValueError
DayOutOfRange(y, m, d) == d < 1 \/ d > DaysInMonth(y, m)

LastOrdinal == Timestamp(MaxOf(CalYears), 12, 31)
YearTable ==
    [o \in 1..LastOrdinal |->
        CHOOSE y \in CalYears : DaysBeforeYear(y) < o /\ o <= DaysBeforeYear(y) + DaysInYear(y)]
MonthTable ==
    [o \in 1..LastOrdinal |->
        CHOOSE m \in 1..12 :
            /\ MonthOffset[YearTable[o]][m] < o
            /\ o <= MonthOffset[YearTable[o]][m] + DaysInMonth(YearTable[o], m)]

\* Timestamp.year, .month, .day
YearOf(o) == YearTable[o]
MonthOf(o) == MonthTable[o]
DayOf(o) == o - MonthOffset[YearTable[o]][MonthTable[o]]

\* pandas offsets: roll_convention and shift_month, as MonthEnd and MonthBegin
\* apply them (ts + Offset(n); ts - Offset(n) is ts + Offset(-n))
RollConvention(other, n, compare) ==
    IF n > 0 /\ other < compare THEN n - 1
    ELSE IF n <= 0 /\ other > compare THEN n + 1
    ELSE n

ShiftMonth(o, months, day_opt) ==
    LET total == YearOf(o) * 12 + (MonthOf(o) - 1) + months
        y == total \div 12
        m == (total % 12) + 1
    IN  Timestamp(y, m, IF day_opt = "start" THEN 1 ELSE DaysInMonth(y, m))

PlusMonthEnd(o, n) ==
    ShiftMonth(o, RollConvention(DayOf(o), n, DaysInMonth(YearOf(o), MonthOf(o))), "end")
PlusMonthBegin(o, n) ==
    ShiftMonth(o, RollConvention(DayOf(o), n, 1), "start")

(***************************************************************************)
(* Recurrence Detector: the body of the group loop of debit_orders_due     *)
(* (lines 611-655) and _safe_dom_next_month (lines 660-666)                *)
(***************************************************************************)
\* bound of the model: how far back of today a weekly group may end
WeeklyBack == 30

\* line 580: window_days default
DefaultWindowDays == 7
\* lines 619-620: cadence bands on the median gap, in days
MonthlyMin == 27
MonthlyMax == 34
WeeklyMin == 6
WeeklyMax == 8
\* lines 645-646
WeekDays == 7

\* line 618: dates.diff().dropna().dt.days
Gaps(ds) == [i \in 1..(Len(ds) - 1) |-> ds[i + 1] - ds[i]]

\* ascending sort of a sequence of integers
RECURSIVE SortAsc(_)
SortAsc(q) ==
    IF q = <<>> THEN <<>>
    ELSE LET i == CHOOSE i \in 1..Len(q) : \A j \in 1..Len(q) : q[i] <= q[j]
         IN  <<q[i]>> \o SortAsc([k \in 1..(Len(q) - 1) |-> IF k < i THEN q[k] ELSE q[k + 1]])

\* twice gaps.median(): the middle value, or the mean of the two middle values
Median2(q) ==
    LET srt == SortAsc(q)
        n == Len(q)
    IN  IF n % 2 = 1 THEN 2 * srt[(n + 1) \div 2]
        ELSE srt[n \div 2] + srt[n \div 2 + 1]

\* lines 619-620
MonthlyLike(ds) ==
    /\ Len(Gaps(ds)) >= 2
    /\ 2 * MonthlyMin <= Median2(Gaps(ds))
    /\ Median2(Gaps(ds)) <= 2 * MonthlyMax
WeeklyLike(ds) ==
    /\ Len(Gaps(ds)) >= 2
    /\ 2 * WeeklyMin <= Median2(Gaps(ds))
    /\ Median2(Gaps(ds)) <= 2 * WeeklyMax

\* line 637: dates.dt.day.mode().iloc[0]; mode() lists the most frequent values
\* in ascending order
PreferredDom(ds) ==
    LET doms == [i \in 1..Len(ds) |-> DayOf(ds[i])]
        count(v) == Cardinality({i \in 1..Len(ds) : doms[i] = v})
        modes == {v \in SeqToSet(doms) : \A u \in SeqToSet(doms) : count(u) <= count(v)}
    IN  MinOf(modes)

\* lines 639-642: day dom of today's month, the month's end when it has no such day
Candidate(t, dom) ==
    IF DayOutOfRange(YearOf(t), MonthOf(t), dom)
    THEN PlusMonthEnd(Timestamp(YearOf(t), MonthOf(t), 1), 0)
    ELSE Timestamp(YearOf(t), MonthOf(t), dom)

\* line 661: (first of today's month + MonthEnd(1)) - MonthBegin(1)
FirstNext(t) ==
    PlusMonthBegin(PlusMonthEnd(Timestamp(YearOf(t), MonthOf(t), 1), 1), -1)

\* lines 660-666: _safe_dom_next_month
SafeDomNextMonth(t, dom) ==
    LET first_next == FirstNext(t)
    IN  IF DayOutOfRange(YearOf(first_next), MonthOf(first_next), dom)
        THEN PlusMonthEnd(first_next, 0)
        ELSE Timestamp(YearOf(first_next), MonthOf(first_next), dom)

\* line 643
MonthlyNextDue(t, dom) ==
    IF Candidate(t, dom) >= t THEN Candidate(t, dom) ELSE SafeDomNextMonth(t, dom)

\* lines 645-646
WeeklyNextDue(t, last) ==
    LET nd == last + WeekDays
    IN  IF nd >= t THEN nd ELSE nd + (((t - nd) \div WeekDays) + 1) * WeekDays

\* line 648: today <= next_due <= horizon
InWindow(t, due, window) == t <= due /\ due <= t + window

\* groups of the model, relative to today
\* one keyword-flagged transaction on each day of January of today's year
KeywordSingles(t) == {<<Timestamp(YearOf(t), 1, d)>> : d \in 1..31}
\* the same day of month in January, February and March of today's year
MonthlyTriples(t) ==
    {<<Timestamp(YearOf(t), 1, d), Timestamp(YearOf(t), 2, d), Timestamp(YearOf(t), 3, d)>> :
        d \in 1..28}
\* three transactions a week apart, the last one up to WeeklyBack days ago
WeeklyTriples(t) ==
    {<<l - 2 * WeekDays, l - WeekDays, l>> : l \in (t - WeeklyBack)..(t + 1)}
\* one, two or three transactions of no cadence
Irregulars(t) == {<<t - 3>>, <<t - 12, t - 3>>, <<t - 50, t - 30, t - 3>>}
\* groups with several transactions on one day
SameDayGroups(t) ==
    {<<Timestamp(YearOf(t), 1, 5), Timestamp(YearOf(t), 1, 5), Timestamp(YearOf(t), 2, 5),
       Timestamp(YearOf(t), 2, 5), Timestamp(YearOf(t), 3, 5)>>,
     <<t - 17, t - 10, t - 10, t - 3>>,
     <<t - 10, t - 10, t - 3, t - 3>>,
     <<t - 50, t - 50, t - 43, t - 43, t - 23, t - 3>>}

\* monthly groups whose days of month tie for the most frequent: the later
\* pair on the larger day, the later pair on the smaller day, and an untied one
TiedDomGroups(t) ==
    {<<Timestamp(YearOf(t), 1, 10), Timestamp(YearOf(t), 2, 10),
       Timestamp(YearOf(t), 3, 12), Timestamp(YearOf(t), 4, 12)>>,
     <<Timestamp(YearOf(t), 1, 12), Timestamp(YearOf(t), 2, 12),
       Timestamp(YearOf(t), 3, 10), Timestamp(YearOf(t), 4, 10)>>,
     <<Timestamp(YearOf(t), 1, 12), Timestamp(YearOf(t), 2, 10),
       Timestamp(YearOf(t), 3, 12)>>}

InitRecur ==
    /\ today \in {Timestamp(y, 1, 1) + k : y \in TodayYearSet, k \in 0..365}
    /\ YearOf(today) \in TodayYearSet
    /\ window_days = DefaultWindowDays
    /\ \/ dates \in KeywordSingles(today) /\ kw = TRUE
       \/ dates \in MonthlyTriples(today) /\ kw = FALSE
       \/ dates \in WeeklyTriples(today) /\ kw = FALSE
       \/ dates \in Irregulars(today) /\ kw = FALSE
       \/ dates \in SameDayGroups(today) /\ kw = FALSE
       \/ dates \in TiedDomGroups(today) /\ kw \in BOOLEAN
    /\ monthly_like = FALSE
    /\ weekly_like = FALSE
    /\ rpc = "group"
    /\ branch = "none"
    /\ preferred_dom = None
    /\ next_due = None
    /\ listed = FALSE

\* lines 615-616 and 622-623: too little evidence, or no cadence and no keyword
GroupSkipped ==
    /\ rpc = "group"
    /\ \/ /\ Len(dates) < 2 /\ ~kw
          /\ UNCHANGED <<monthly_like, weekly_like>>
       \/ /\ ~(Len(dates) < 2 /\ ~kw)
          /\ ~(kw \/ MonthlyLike(dates) \/ WeeklyLike(dates))
          /\ monthly_like' = MonthlyLike(dates)
          /\ weekly_like' = WeeklyLike(dates)
    /\ rpc' = "skipped"
    /\ UNCHANGED <<today, window_days, dates, kw, branch, preferred_dom, next_due, listed>>
    /\ UNCHANGED nonRecur

\* lines 635-643 and 648-655: monthly-like or keyword-flagged group
ProjectMonthly ==
    /\ rpc = "group"
    /\ ~(Len(dates) < 2 /\ ~kw)
    /\ MonthlyLike(dates) \/ kw
    /\ monthly_like' = MonthlyLike(dates)
    /\ weekly_like' = WeeklyLike(dates)
    /\ preferred_dom' = Some(PreferredDom(dates))
    /\ next_due' = Some(MonthlyNextDue(today, PreferredDom(dates)))
    /\ listed' = InWindow(today, Val(next_due'), window_days)
    /\ branch' = "monthly"
    /\ rpc' = "projected"
    /\ UNCHANGED <<today, window_days, dates, kw>>
    /\ UNCHANGED nonRecur

\* lines 644-646 and 648-655: weekly-like group
ProjectWeekly ==
    /\ rpc = "group"
    /\ ~(Len(dates) < 2 /\ ~kw)
    /\ ~(MonthlyLike(dates) \/ kw)
    /\ WeeklyLike(dates)
    /\ monthly_like' = MonthlyLike(dates)
    /\ weekly_like' = WeeklyLike(dates)
    /\ next_due' = Some(WeeklyNextDue(today, dates[Len(dates)]))
    /\ listed' = InWindow(today, Val(next_due'), window_days)
    /\ branch' = "weekly"
    /\ rpc' = "projected"
    /\ UNCHANGED <<today, window_days, dates, kw, preferred_dom>>
    /\ UNCHANGED nonRecur

NextRecur ==
    \/ GroupSkipped
    \/ ProjectMonthly
    \/ ProjectWeekly

IdleRecur ==
    /\ today = 1
    /\ window_days = DefaultWindowDays
    /\ dates = <<>>
    /\ kw = FALSE
    /\ monthly_like = FALSE
    /\ weekly_like = FALSE
    /\ rpc = "idle"
    /\ branch = "none"
    /\ preferred_dom = None
    /\ next_due = None
    /\ listed = FALSE
(***************************************************************************)
(* Content fingerprint: _fingerprint (lines 116-126)                       *)
(***************************************************************************)
\* a path is a sequence of one-byte characters; their code points order them
CharCode == [c \in {"0", "1", "2", "3", "4", "5", "6", "7", "8", "9", "a", "b"} |->
                CASE c = "0" -> 48 [] c = "1" -> 49 [] c = "2" -> 50 [] c = "3" -> 51
                  [] c = "4" -> 52 [] c = "5" -> 53 [] c = "6" -> 54 [] c = "7" -> 55
                  [] c = "8" -> 56 [] c = "9" -> 57 [] c = "a" -> 97 [] c = "b" -> 98]

\* p < q as Python compares strings
RECURSIVE StrLess(_, _)
StrLess(p, q) ==
    IF q = <<>> THEN FALSE
    ELSE IF p = <<>> THEN TRUE
    ELSE IF p[1] # q[1] THEN CharCode[p[1]] < CharCode[q[1]]
    ELSE StrLess(Tail(p), Tail(q))

\* line 118: sorted(paths)
RECURSIVE SortedPaths(_)
SortedPaths(ps) ==
    IF ps = <<>> THEN <<>>
    ELSE LET i == CHOOSE i \in 1..Len(ps) :
                      \A j \in 1..Len(ps) : ~StrLess(ps[j], ps[i])
         IN  <<ps[i]>> \o SortedPaths([k \in 1..(Len(ps) - 1) |->
                                          IF k < i THEN ps[k] ELSE ps[k + 1]])

DigitChars == <<"0", "1", "2", "3", "4", "5", "6", "7", "8", "9">>

\* str(n) of a non-negative integer: its decimal digits
RECURSIVE Str(_)
Str(n) ==
    IF n < 10 THEN <<DigitChars[n + 1]>>
    ELSE Str(n \div 10) \o <<DigitChars[(n % 10) + 1]>>

\* lines 118-125: the bytes fed to the hash; stat[p] is os.stat(p), null when
\* it raises FileNotFoundError
RECURSIVE HashInput(_, _)
HashInput(sorted, stat) ==
    IF sorted = <<>> THEN <<>>
    ELSE LET p == Head(sorted)
         IN  (IF IsNull(stat[p]) THEN <<>>
              ELSE p \o Str(Val(stat[p]).mtime_ns) \o Str(Val(stat[p]).size))
             \o HashInput(Tail(sorted), stat)

\* line 126: hexdigest()[:16], taken as free of collisions: a digest stands
\* for exactly one input
HexDigest16(bytes) == <<"sha256", bytes>>

Fingerprint(paths, stat) == HexDigest16(HashInput(SortedPaths(paths), stat))

(***************************************************************************)
(* Branch Cache: _build_branch_cache (lines 128-171), called concurrently. *)
(* CACHE_DIR and _coerce_numeric are used but not defined in main.py; they *)
(* are taken as the cache directory and the coercion collaborator of the   *)
(* design (section 6).                                                     *)
(***************************************************************************)
\* bounds of the model
MaxCallers == 2
MaxTouches == 1

Callers == 1..MaxCallers
CacheBranch == "CPT02"
\* the directory of the cache entries
CACHE_DIR == "cache"
\* what reading and coercing a source file may do (lines 149-153)
CoerceOutcomes == {"frame", "raises"}

\* the branch's source file and the metadata it may have
SourcePath == <<"a">>
SourceStats == {[mtime_ns |-> 1, size |-> 3], [mtime_ns |-> 12, size |-> 3],
                [mtime_ns |-> 12, size |-> 4]}

\* line 133: _discover_statement_files
Discover(src) == IF IsNull(src) THEN <<>> ELSE <<SourcePath>>
StatOf(src) == [p \in {SourcePath} |-> src]

\* line 138
PqPath(sig) == <<CACHE_DIR, CacheBranch, sig>>
EntryPaths == {PqPath(Fingerprint(<<SourcePath>>, StatOf(Some(st)))) : st \in SourceStats}

\* an entry file: who is writing it, and the series it holds once written
EntryFile(writers, content) == [writers |-> writers, content |-> content]
\* os.path.exists (line 141)
EntryMissing(store, path) == FALSE
EntryExists(store, path) == ~IsNull(store[path])

InitCache ==
    /\ c_src \in {None} \cup {Some(st) : st \in SourceStats}
    /\ c_touches = 0
    /\ c_store = [e \in EntryPaths |-> None]
    /\ c_pointer = None
    /\ c_pc = [p \in Callers |-> "call"]
    /\ c_sig = [p \in Callers |-> None]
    /\ c_seen = [p \in Callers |-> None]
    /\ c_prior = [p \in Callers |-> {}]
    /\ c_frames = [p \in Callers |-> None]
    /\ c_ret = [p \in Callers |-> None]
    /\ c_entry = [p \in Callers |-> None]
    /\ c_err = [p \in Callers |-> 0]

\* the source file is rewritten by its owner: new modification time or size
TouchSource ==
    /\ c_touches < MaxTouches
    /\ ~IsNull(c_src)
    /\ \E st \in SourceStats \ {Val(c_src)} : c_src' = Some(st)
    /\ c_touches' = c_touches + 1
    /\ UNCHANGED <<c_store, c_pointer, c_pc, c_sig, c_seen, c_prior, c_frames, c_ret,
                   c_entry, c_err>>
    /\ UNCHANGED nonCache

\* lines 133-135: no source files
CacheNoFiles(p) ==
    /\ c_pc[p] = "call"
    /\ Discover(c_src) = <<>>
    /\ c_pc' = [c_pc EXCEPT ![p] = "raised"]
    /\ c_err' = [c_err EXCEPT ![p] = 404]
    /\ UNCHANGED <<c_src, c_touches, c_store, c_pointer, c_sig, c_seen, c_prior, c_frames,
                   c_ret, c_entry>>
    /\ UNCHANGED nonCache

\* lines 137-142: the entry of this fingerprint exists and is returned
CacheHit(p) ==
    /\ c_pc[p] = "call"
    /\ Discover(c_src) # <<>>
    /\ LET sig == Fingerprint(Discover(c_src), StatOf(c_src))
       IN  /\ EntryExists(c_store, PqPath(sig))
           /\ c_sig' = [c_sig EXCEPT ![p] = Some(sig)]
           /\ c_ret' = [c_ret EXCEPT ![p] = Some(PqPath(sig))]
           /\ c_entry' = [c_entry EXCEPT ![p] = c_store[PqPath(sig)]]
    /\ c_seen' = [c_seen EXCEPT ![p] = c_src]
    /\ c_prior' = [c_prior EXCEPT ![p] = {q \in Callers : c_pc[q] = "returned"}]
    /\ c_pc' = [c_pc EXCEPT ![p] = "returned"]
    /\ UNCHANGED <<c_src, c_touches, c_store, c_pointer, c_frames, c_err>>
    /\ UNCHANGED nonCache

\* lines 137-141: no entry of this fingerprint yet
CacheMiss(p) ==
    /\ c_pc[p] = "call"
    /\ Discover(c_src) # <<>>
    /\ LET sig == Fingerprint(Discover(c_src), StatOf(c_src))
       IN  /\ ~EntryExists(c_store, PqPath(sig))
           /\ c_sig' = [c_sig EXCEPT ![p] = Some(sig)]
    /\ c_seen' = [c_seen EXCEPT ![p] = c_src]
    /\ c_prior' = [c_prior EXCEPT ![p] = {q \in Callers : c_pc[q] = "returned"}]
    /\ c_pc' = [c_pc EXCEPT ![p] = "miss"]
    /\ UNCHANGED <<c_src, c_touches, c_store, c_pointer, c_frames, c_ret, c_entry, c_err>>
    /\ UNCHANGED nonCache

\* lines 146-153: the source file is read and coerced
CacheReadSources(p) ==
    /\ c_pc[p] = "miss"
    /\ "frame" \in CoerceOutcomes
    /\ c_frames' = [c_frames EXCEPT ![p] = c_src]
    /\ c_pc' = [c_pc EXCEPT ![p] = "frames"]
    /\ UNCHANGED <<c_src, c_touches, c_store, c_pointer, c_sig, c_seen, c_prior, c_ret,
                   c_entry, c_err>>
    /\ UNCHANGED nonCache

\* lines 146-156: reading or coercing raises for every file, no frames
CacheNoReadable(p) ==
    /\ c_pc[p] = "miss"
    /\ "raises" \in CoerceOutcomes
    /\ c_pc' = [c_pc EXCEPT ![p] = "raised"]
    /\ c_err' = [c_err EXCEPT ![p] = 400]
    /\ UNCHANGED <<c_src, c_touches, c_store, c_pointer, c_sig, c_seen, c_prior, c_frames,
                   c_ret, c_entry>>
    /\ UNCHANGED nonCache

\* line 165: _daily_cash_series raises (missing columns, lines 355 and 361)
CacheSeriesRaises(p) ==
    /\ c_pc[p] = "frames"
    /\ c_pc' = [c_pc EXCEPT ![p] = "raised"]
    /\ c_err' = [c_err EXCEPT ![p] = 400]
    /\ UNCHANGED <<c_src, c_touches, c_store, c_pointer, c_sig, c_seen, c_prior, c_frames,
                   c_ret, c_entry>>
    /\ UNCHANGED nonCache

\* lines 165-167: the series is built and to_parquet opens the entry file for
\* writing, which creates it or truncates what it held
CacheWriteBegin(p) ==
    /\ c_pc[p] = "frames"
    /\ LET path == PqPath(Val(c_sig[p]))
           old == IF IsNull(c_store[path]) THEN {} ELSE Val(c_store[path]).writers
       IN  c_store' = [c_store EXCEPT ![path] = Some(EntryFile(old \cup {p}, None))]
    /\ c_pc' = [c_pc EXCEPT ![p] = "writing"]
    /\ UNCHANGED <<c_src, c_touches, c_pointer, c_sig, c_seen, c_prior, c_frames, c_ret,
                   c_entry, c_err>>
    /\ UNCHANGED nonCache

\* line 167: to_parquet has written its last byte and closes the file; the
\* file holds a whole series once no other call is still writing it
CacheWriteEnd(p) ==
    /\ c_pc[p] = "writing"
    /\ LET path == PqPath(Val(c_sig[p]))
           rest == Val(c_store[path]).writers \ {p}
       IN  c_store' = [c_store EXCEPT ![path] =
               Some(EntryFile(rest, IF rest = {} THEN c_frames[p] ELSE None))]
    /\ c_pc' = [c_pc EXCEPT ![p] = "written"]
    /\ UNCHANGED <<c_src, c_touches, c_pointer, c_sig, c_seen, c_prior, c_frames, c_ret,
                   c_entry, c_err>>
    /\ UNCHANGED nonCache

\* lines 169-171: the pointer file is written and the path returned
CachePointerReturn(p) ==
    /\ c_pc[p] = "written"
    /\ LET path == PqPath(Val(c_sig[p]))
       IN  /\ c_pointer' = Some([branch |-> CacheBranch, signature |-> Val(c_sig[p]),
                                 parquet |-> path])
           /\ c_ret' = [c_ret EXCEPT ![p] = Some(path)]
           /\ c_entry' = [c_entry EXCEPT ![p] = c_store[path]]
    /\ c_pc' = [c_pc EXCEPT ![p] = "returned"]
    /\ UNCHANGED <<c_src, c_touches, c_store, c_sig, c_seen, c_prior, c_frames, c_err>>
    /\ UNCHANGED nonCache

NextCache ==
    \/ TouchSource
    \/ \E p \in Callers : CacheNoFiles(p)
    \/ \E p \in Callers : CacheHit(p)
    \/ \E p \in Callers : CacheMiss(p)
    \/ \E p \in Callers : CacheReadSources(p)
    \/ \E p \in Callers : CacheNoReadable(p)
    \/ \E p \in Callers : CacheSeriesRaises(p)
    \/ \E p \in Callers : CacheWriteBegin(p)
    \/ \E p \in Callers : CacheWriteEnd(p)
    \/ \E p \in Callers : CachePointerReturn(p)

IdleCache ==
    /\ c_src = None
    /\ c_touches = 0
    /\ c_store = [e \in EntryPaths |-> None]
    /\ c_pointer = None
    /\ c_pc = [p \in Callers |-> "idle"]
    /\ c_sig = [p \in Callers |-> None]
    /\ c_seen = [p \in Callers |-> None]
    /\ c_prior = [p \in Callers |-> {}]
    /\ c_frames = [p \in Callers |-> None]
    /\ c_ret = [p \in Callers |-> None]
    /\ c_entry = [p \in Callers |-> None]
    /\ c_err = [p \in Callers |-> 0]
(***************************************************************************)
(* Grouping row_keys: lines 596-613 of debit_orders_due and _normalize_name    *)
(* (lines 77-80). A label is a sequence of characters.                     *)
(***************************************************************************)
\* bound of the model: rows of the frame
MaxTxns == 2

\* str.lower() on the characters of the model's labels
Lower(c) == CASE c = "A" -> "a" [] c = "G" -> "g" [] OTHER -> c
\* whether the pattern [\W_] matches the character
NonWordOrUnderscore(c) == c \in {"-", " ", "_"}

\* lines 77-80: _normalize_name; a value that is not a str gives ""
RECURSIVE StripLower(_)
StripLower(chars) ==
    IF chars = <<>> THEN <<>>
    ELSE (IF NonWordOrUnderscore(Head(chars)) THEN <<>> ELSE <<Lower(Head(chars))>>)
         \o StripLower(Tail(chars))
NormalizeName(cell) == IF IsNull(cell) THEN <<>> ELSE StripLower(Val(cell))

\* Series.astype(str) of a cell: a null becomes the string "nan" where the
\* column has object dtype, and stays null where it has the str dtype
NullStrings == {Some(<<"n", "a", "n">>), None}
AsTypeStr(cell, nulls) == IF IsNull(cell) THEN nulls ELSE cell

\* the labels of the model
Labels == {<<"A", "b">>, <<"a", "-", "b">>, <<"-", "-">>, <<"G", "y", "m">>}
Cells == {None} \cup {Some(l) : l \in Labels}

\* lines 596-602: the key of a row
KeyOf(row, nulls) ==
    LET cpty == AsTypeStr(row.Counterparty, nulls)
        desc == AsTypeStr(row.Description, nulls)
        key == NormalizeName(cpty)
        fb == NormalizeName(desc)
    IN  IF Len(key) > 0 THEN key ELSE fb

InitKeys ==
    /\ txns \in [1..MaxTxns -> [Counterparty : Cells, Description : Cells]]
    /\ null_str \in NullStrings
    /\ row_keys = <<>>
    /\ groups = {}
    /\ kpc = "call"

\* lines 596-613: the row_keys are derived and the rows grouped by key; the group
\* of the empty key is skipped
DeriveKeys ==
    /\ kpc = "call"
    /\ row_keys' = [i \in 1..MaxTxns |-> KeyOf(txns[i], null_str)]
    /\ groups' = {{j \in 1..MaxTxns : row_keys'[j] = row_keys'[i]} :
                     i \in {n \in 1..MaxTxns : row_keys'[n] # <<>>}}
    /\ kpc' = "grouped"
    /\ UNCHANGED <<txns, null_str>>
    /\ UNCHANGED nonKeys

NextKeys == DeriveKeys

IdleKeys ==
    /\ txns = <<>>
    /\ null_str = None
    /\ row_keys = <<>>
    /\ groups = {}
    /\ kpc = "idle"
(***************************************************************************)
(* _fingerprint (lines 116-126) on two file sets                           *)
(***************************************************************************)
\* the paths, metadata and supplied path lists of the model
FpPaths == {<<"a">>, <<"a", "1">>}
FpStats == {[mtime_ns |-> 1, size |-> 23], [mtime_ns |-> 12, size |-> 3],
            [mtime_ns |-> 2, size |-> 3]}
FpPathLists == {<<>>, <<<<"a">>>>, <<<<"a", "1">>>>,
                <<<<"a">>, <<"a", "1">>>>, <<<<"a", "1">>, <<"a">>>>}
FpCalls == {"first", "second"}

InitFingerprint ==
    /\ fp_paths \in [FpCalls -> FpPathLists]
    /\ fp_stat \in [FpCalls -> [FpPaths -> {None} \cup {Some(st) : st \in FpStats}]]
    /\ fp_bytes = [c \in FpCalls |-> None]
    /\ fp_sig = [c \in FpCalls |-> None]

\* lines 116-126: one call of _fingerprint
FingerprintCall(c) ==
    /\ IsNull(fp_bytes[c])
    /\ fp_bytes' = [fp_bytes EXCEPT
                       ![c] = Some(HashInput(SortedPaths(fp_paths[c]), fp_stat[c]))]
    /\ fp_sig' = [fp_sig EXCEPT ![c] = Some(Fingerprint(fp_paths[c], fp_stat[c]))]
    /\ UNCHANGED <<fp_paths, fp_stat>>
    /\ UNCHANGED nonFingerprint

NextFingerprint == \E c \in FpCalls : FingerprintCall(c)

IdleFingerprint ==
    /\ fp_paths = <<>>
    /\ fp_stat = <<>>
    /\ fp_bytes = <<>>
    /\ fp_sig = <<>>
-----------------------------------------------------------------------------
(***************************************************************************)
(* Specifications                                                          *)
(***************************************************************************)
StartForecast == InitForecast /\ IdleSeries /\ IdleScenario /\ IdleRecur /\ IdleCache /\ IdleKeys
    /\ IdleFingerprint
SpecForecast == StartForecast /\ [][NextForecast]_vars

StartSeries == InitSeries /\ IdleForecast /\ IdleScenario /\ IdleRecur /\ IdleCache /\ IdleKeys
    /\ IdleFingerprint
SpecSeries == StartSeries /\ [][NextSeries]_vars

StartScenario == InitScenario /\ IdleForecast /\ IdleSeries /\ IdleRecur /\ IdleCache /\ IdleKeys
    /\ IdleFingerprint
SpecScenario == StartScenario /\ [][NextScenario]_vars

StartRecur == InitRecur /\ IdleForecast /\ IdleSeries /\ IdleScenario /\ IdleCache /\ IdleKeys
    /\ IdleFingerprint
SpecRecur == StartRecur /\ [][NextRecur]_vars

StartCache == InitCache /\ IdleForecast /\ IdleSeries /\ IdleScenario /\ IdleRecur /\ IdleKeys
    /\ IdleFingerprint
SpecCache == StartCache /\ [][NextCache]_vars

StartKeys ==
    InitKeys /\ IdleForecast /\ IdleSeries /\ IdleScenario /\ IdleRecur /\ IdleCache
    /\ IdleFingerprint
SpecKeys == StartKeys /\ [][NextKeys]_vars

StartFingerprint ==
    InitFingerprint /\ IdleForecast /\ IdleSeries /\ IdleScenario /\ IdleRecur /\ IdleCache
    /\ IdleKeys
SpecFingerprint == StartFingerprint /\ [][NextFingerprint]_vars

-----------------------------------------------------------------------------
\* C1 (forecast totality): a call of _fit_forecast never raises, can always
\* take its next step until it returns, and what it returns has exactly
\* horizon_days values, whatever the history length, the requested model and
\* the failures of the secondary and primary model.
C1_ForecastTotal ==
    /\ fpc \in {"call", "prophet", "hw", "done"}
    /\ fpc # "done" => ENABLED NextForecast
    /\ fpc = "done" => Len(fresult) = horizon_days

\* a prophet request on a long history whose secondary and primary model both
\* failed has returned
C1_Witness ==
    /\ fpc = "done"
    /\ model = "prophet"
    /\ ftier = "fallback"
    /\ Len(history) >= MinHistory

\* C2 (flat projection): when the history has 1..6 points, or has 7 or more
\* and the primary model failed, the returned forecast is horizon_days copies
\* of the last historical value.
C2_FlatProjection ==
    (fpc = "done" /\ Len(history) >= 1
        /\ (Len(history) < MinHistory \/ ftier = "fallback"))
    => \A i \in 1..horizon_days :
          /\ Len(fresult) = horizon_days
          /\ fresult[i] = history[Len(history)]

C2_Witness ==
    /\ fpc = "done"
    /\ ftier = "fallback"
    /\ Len(history) >= MinHistory
    /\ history[1] # history[Len(history)]
    /\ horizon_days > 1

-----------------------------------------------------------------------------
\* the filtered transaction set, stated on the input directly
KeptIdx ==
    {i \in 1..Len(df) :
        /\ from_date = <<>> \/ df[i].Date >= from_date[1]
        /\ to_date = <<>> \/ df[i].Date <= to_date[1]}
KeptDates == {df[i].Date : i \in KeptIdx}
RequiredColumns == {"Date", "Credit_ZAR", "Debit_ZAR"} \subseteq columns

\* C3 (gap-filling): for a non-empty filtered transaction set with earliest
\* date D1 and latest date Dn, the returned series has exactly one row per
\* calendar day of [D1, Dn], in ascending order (row i is day D1 + i - 1), and
\* a day without a transaction has net change 0.
C3_GapFilling ==
    (spc = "returned" /\ KeptIdx # {}) =>
        LET D1 == CHOOSE d \in KeptDates : \A e \in KeptDates : d <= e
            Dn == CHOOSE d \in KeptDates : \A e \in KeptDates : d >= e
        IN  /\ Len(full) = Dn - D1 + 1
            /\ \A i \in 1..Len(full) :
                  /\ full[i].Date = D1 + i - 1
                  /\ full[i].Date \notin KeptDates => full[i].AmountZAR = 0

\* a sparse input: a returned series with a day that has no transaction
C3_Witness ==
    /\ spc = "returned"
    /\ Len(full) >= 3
    /\ \E i \in 1..Len(full) : full[i].Date \notin KeptDates

RECURSIVE NetChangeUpTo(_)
NetChangeUpTo(i) == IF i = 0 THEN 0 ELSE full[i].AmountZAR + NetChangeUpTo(i - 1)

\* C4 (prefix sum): the anchor A is the snapshot of a chronologically earliest
\* filtered row with a non-null snapshot (0 when there is none), and the cash
\* balance of the i-th output day is A + (c1 + ... + ci), the c's being the
\* daily net changes in date order.
C4_PrefixSum ==
    spc = "returned" =>
        LET withBal == {i \in KeptIdx : df[i].Balance_ZAR # <<>>}
        IN  /\ withBal = {} => base = 0
            /\ withBal # {} =>
                  \E i \in withBal :
                      /\ \A k \in withBal : df[i].Date <= df[k].Date
                      /\ base = df[i].Balance_ZAR[1]
            /\ \A i \in 1..Len(full) : full[i].cash = base + NetChangeUpTo(i)

\* the anchor comes from a row that is not the first of the table, and the
\* series has several days with a non-zero change after the first
C4_Witness ==
    /\ spc = "returned"
    /\ base # 0
    /\ Len(df) >= 2 /\ df[1].Balance_ZAR = <<>>
    /\ Len(full) >= 2
    /\ full[1].AmountZAR # 0
    /\ full[Len(full)].AmountZAR # 0

\* C5 (empty-series rejection), as claimed: with the required columns present
\* and no row left after the date filter, the call fails with the dedicated
\* caller-facing empty-series error, not with another kind of error.
C5_EmptySeriesError ==
    (spc # "call" /\ RequiredColumns /\ KeptIdx = {}) =>
        /\ spc = "raised"
        /\ serr.type \in {"EmptySeriesError", "HTTPException"}
        /\ serr.detail \notin {"CSV must contain a Date column",
                               "CSV missing credit/debit columns"}

-----------------------------------------------------------------------------
FirstFuture == last_date + 1
LastFuture == last_date + w_horizon_days

\* sum of the deltas of the rows of q dated on or before hi
RECURSIVE SumDeltasUpTo(_, _)
SumDeltasUpTo(q, hi) ==
    IF q = <<>> THEN 0
    ELSE (IF Head(q).date <= hi THEN Head(q).delta ELSE 0)
         + SumDeltasUpTo(Tail(q), hi)

\* sum of the deltas of the rows of q dated within [lo, hi]
RECURSIVE SumDeltas(_, _, _)
SumDeltas(q, lo, hi) ==
    IF q = <<>> THEN 0
    ELSE (IF lo <= Head(q).date /\ Head(q).date <= hi THEN Head(q).delta ELSE 0)
         + SumDeltas(Tail(q), lo, hi)

Perms(n) == {p \in [1..n -> 1..n] : \A i, j \in 1..n : p[i] = p[j] => i = j}
PermTable == [n \in 0..MaxAdj |-> Perms(n)]

NoOverlapRaised ==
    /\ wpc = "raised"
    /\ werr.type = "HTTPException"
    /\ werr.detail = "No CSV dates fall within forecast horizon"

\* C8 (scenario overlap rejection): for a request that supplies adjustments,
\* the no-overlap error is raised, reporting the first and last future date,
\* if and only if no adjustment date lies within [first, last] future date;
\* otherwise the adjusted forecast has the length and dates of the base
\* forecast.
C8_OverlapRejection ==
    (wpc \in {"returned", "raised"} /\ adj # <<>>) =>
        LET none == \A i \in 1..Len(adj) :
                        adj[i].date < FirstFuture \/ adj[i].date > LastFuture
        IN  /\ NoOverlapRaised <=> none
            /\ NoOverlapRaised => werr.first = FirstFuture /\ werr.last = LastFuture
            /\ ~none =>
                  /\ wpc = "returned"
                  /\ Len(scenario) = Len(base_fc)
                  /\ \A i \in 1..Len(base_fc) : scenario[i].date = last_date + i

\* adjustments dated on both sides of the horizon and none inside: rejected
C8_Witness ==
    /\ NoOverlapRaised
    /\ \E i \in 1..Len(adj) : adj[i].date > LastFuture
    /\ \E i \in 1..Len(adj) : adj[i].date < FirstFuture
    /\ werr.last = LastFuture

-----------------------------------------------------------------------------
\* day m of month mo of year y, clamped to the month's last day
ClampedDay(y, mo, m) ==
    Timestamp(y, mo, IF m > DaysInMonth(y, mo) THEN DaysInMonth(y, mo) ELSE m)

\* C9 (monthly roll-over), as claimed: for a monthly-like or keyword-flagged
\* group with preferred day-of-month m, the projected date is day m of today's
\* month (clamped to the month's end) when that is on or after today, and
\* otherwise day m of the next calendar month (clamped); it is never earlier
\* than today.
C9_MonthlyRollOver ==
    (rpc = "projected" /\ branch = "monthly") =>
        LET m == PreferredDom(dates)
            y == YearOf(today)
            mo == MonthOf(today)
            thisMonth == ClampedDay(y, mo, m)
            nextMonth == IF mo = 12 THEN ClampedDay(y + 1, 1, m)
                                    ELSE ClampedDay(y, mo + 1, m)
        IN  /\ next_due = Some(IF thisMonth >= today THEN thisMonth ELSE nextMonth)
            /\ next_due[1] >= today

\* C10 (weekly projection), as claimed: for a weekly-like group that is neither
\* monthly-like nor keyword-flagged, with last date L, the projected date is
\* L + 7 when that is on or after today, and otherwise the earliest L + 7k
\* (k >= 1) on or after today, which is today itself when today - (L + 7) is
\* a positive multiple of 7.
C10_WeeklyProjection ==
    (rpc = "projected" /\ branch = "weekly") =>
        LET L == dates[Len(dates)]
            due == next_due[1]
        IN  /\ due >= today
            /\ due >= L + 7
            /\ (due - L) % 7 = 0
            /\ due = L + 7 \/ due - 7 < today
            /\ (today > L + 7 /\ (today - (L + 7)) % 7 = 0) => due = today

-----------------------------------------------------------------------------
\* the distinct values of a sorted sequence, in ascending order
RECURSIVE Distinct(_)
Distinct(ds) ==
    IF Len(ds) <= 1 THEN ds
    ELSE IF ds[1] = ds[2] THEN Distinct(Tail(ds))
    ELSE <<ds[1]>> \o Distinct(Tail(ds))

\* C11 (cadence classification), as claimed: the gaps of a group are the day
\* differences between consecutive distinct transaction dates (same-day
\* transactions give one date and no zero gap); the group is monthly-like iff
\* it has at least 2 such gaps with median in [27, 34], and weekly-like iff it
\* has at least 2 such gaps with median in [6, 8].
C11_CadenceOnDistinctDates ==
    rpc \in {"skipped", "projected"} =>
        LET gaps == Gaps(Distinct(dates))
        IN  /\ monthly_like = (Len(gaps) >= 2 /\ 54 <= Median2(gaps) /\ Median2(gaps) <= 68)
            /\ weekly_like = (Len(gaps) >= 2 /\ 12 <= Median2(gaps) /\ Median2(gaps) <= 16)

-----------------------------------------------------------------------------
\* the days of month tied for the most frequent among the dates ds
TiedModes(ds) ==
    LET count(v) == Cardinality({i \in 1..Len(ds) : DayOf(ds[i]) = v})
    IN  {DayOf(ds[i]) : i \in {j \in 1..Len(ds) :
            \A k \in 1..Len(ds) : count(DayOf(ds[k])) <= count(DayOf(ds[j]))}}

\* C13 (day-of-month tie-break), as claimed: for a monthly-like or
\* keyword-flagged group the preferred day-of-month is a most frequent
\* day-of-month of the observed dates, and among several tied ones it is the
\* day-of-month of the most recent date that has a tied day-of-month.
C13_TieBreakMostRecent ==
    (rpc = "projected" /\ branch = "monthly") =>
        LET tied == TiedModes(dates)
            recent == MaxOf({i \in 1..Len(dates) : DayOf(dates[i]) \in tied})
        IN  preferred_dom = Some(DayOf(dates[recent]))

-----------------------------------------------------------------------------
\* C12 (cache idempotence): when a call of _build_branch_cache begins after
\* another call for the branch has returned a path, and finds the source
\* file's metadata as that call found it, it computes the same fingerprint and
\* returns the same entry path, without reading the source file, rebuilding
\* the series or rewriting the entry.
C12_CacheIdempotence ==
    \A p \in Callers : \A q \in Callers \ {p} :
        (p \in c_prior[q] /\ c_seen[q] = c_seen[p]) =>
            /\ c_sig[q] = c_sig[p]
            /\ c_pc[q] = "returned"
            /\ c_ret[q] = c_ret[p]
            /\ IsNull(c_frames[q])

\* a call built and wrote the entry, and a later call reused it
C12_Witness ==
    \E p \in Callers : \E q \in Callers \ {p} :
        /\ p \in c_prior[q]
        /\ c_seen[q] = c_seen[p]
        /\ ~IsNull(c_frames[p])
        /\ c_pc[q] = "returned"
        /\ c_ret[q] = c_ret[p]
        /\ ~IsNull(c_pointer) /\ Val(c_pointer).parquet = Val(c_ret[q])

-----------------------------------------------------------------------------
\* the key the claim gives a row: the normalized counterparty, or the
\* normalized description when the counterparty is null or normalizes to ""
ClaimedKey(row) ==
    IF IsNull(row.Counterparty) \/ NormalizeName(row.Counterparty) = <<>>
    THEN NormalizeName(row.Description)
    ELSE NormalizeName(row.Counterparty)

\* C14 (grouping key fallback), as claimed: the key of a row is its normalized
\* counterparty, or its normalized description when the counterparty is null
\* or normalizes to the empty string; rows with the same non-empty key form a
\* group, so two rows with null counterparty and different descriptions are
\* in different groups, and a row whose key is empty is in no group.
C14_KeyFallback ==
    kpc = "grouped" =>
        /\ \A i \in 1..MaxTxns : row_keys[i] = ClaimedKey(txns[i])
        /\ \A i \in 1..MaxTxns : \A j \in 1..MaxTxns :
              (/\ IsNull(txns[i].Counterparty) /\ IsNull(txns[j].Counterparty)
               /\ ClaimedKey(txns[i]) # ClaimedKey(txns[j]))
                  => ~\E g \in groups : i \in g /\ j \in g
        /\ \A i \in 1..MaxTxns :
              ClaimedKey(txns[i]) = <<>> => ~\E g \in groups : i \in g

-----------------------------------------------------------------------------
\* C15 (cache race tolerance), as claimed: under every interleaving of
\* concurrent calls of _build_branch_cache that compute the same fingerprint
\* (the source file is not modified meanwhile), every call that returns a
\* path returns the path of an entry that is, on return, completely written
\* and holds the series of the fingerprinted source.
C15_RaceTolerance ==
    \A p \in Callers :
        (c_pc[p] = "returned" /\ c_touches = 0) =>
            /\ Val(c_entry[p]).writers = {}
            /\ Val(c_entry[p]).content = c_seen[p]

-----------------------------------------------------------------------------
\* the (path, modification time, size) triples of a call's source files
TriplesOf(c) ==
    {<<p, Val(fp_stat[c][p]).mtime_ns, Val(fp_stat[c][p]).size>> :
        p \in {q \in SeqToSet(fp_paths[c]) : ~IsNull(fp_stat[c][q])}}

\* C16 (fingerprint sensitivity), as claimed: the bytes fed to the hash for two
\* file sets are the same if and only if their sets of (path, modification
\* time, size) triples are equal, in whatever order the paths are supplied;
\* hence the fingerprints are equal exactly when the triple sets are.
C16_FingerprintSensitivity ==
    (\A c \in FpCalls : ~IsNull(fp_bytes[c])) =>
        /\ (fp_bytes["first"] = fp_bytes["second"]) <=> (TriplesOf("first") = TriplesOf("second"))
        /\ (fp_sig["first"] = fp_sig["second"]) <=> (TriplesOf("first") = TriplesOf("second"))

=============================================================================
